---- MODULE Spec2Model ----
(***************************************************************************)
(* BayesianPAC, notebook BPAC_OneSubject.ipynb: the single-subject         *)
(* pipeline from segmentation (Step 3) through the PAC oracle and the      *)
(* z-score significance filter (Step 4) to the Bayesian stage (Step 5).    *)
(*                                                                         *)
(* One action per notebook cell; the two fragment loops of the Step 4 cell *)
(* take one step per fragment.  The cells run top to bottom and an         *)
(* exception raised in a cell stops the run.                               *)
(*                                                                         *)
(* Arrays keep the notebook's names and 0-based indices: a[i][j][frag].    *)
(* Real numbers are exact rationals <<n, d>> in lowest terms with d > 0;   *)
(* d = 0 stands for the non-finite results of a division by zero           *)
(* (<<0, 0>> is NaN, <<1, 0>> and <<-1, 0>> are the infinities).           *)
(* Where the notebook's doubles round (the mean of equal surrogates, the   *)
(* quantile of the threshold, the Gaussian density) the definition says    *)
(* how the rounded value is kept.  A notebook variable that no cell has    *)
(* assigned yet holds the value Unassigned.                                *)
(***************************************************************************)
EXTENDS Integers, Sequences, FiniteSets, Bags, TLC

\* ---------------------------------------------------------------- bounds
\* Configurations explored: 1..MaxChannels channels, 1..MaxFragments
\* fragments, signals of up to MaxSamples samples.  The oracle answers of a
\* run are explored as follows: at most MaxActive of its calls answer with
\* something else than the quiet output.  A run of one fragment makes at
\* most MaxChannels * MaxChannels = 4 calls, so all its answers are explored;
\* of the 8 calls of 2 channels and 2 fragments, the answers with up to 4
\* calls that are not quiet.
MaxChannels == 2
MaxFragments == 2
MaxSamples == 3
MaxActive == 4

\* ------------------------------------------------------ program constants
\* n_perm=200 of the p.fit call.
n_perm == 200
\* 1e5 of "* 1e5 # Scale to avoid problems with small values".
Scale == 100000

\* ----------------------------------------------------------- arithmetic
Abs(x) == IF x < 0 THEN -x ELSE x

RECURSIVE GCD(_, _)
GCD(a, b) == IF b = 0 THEN a ELSE GCD(b, a % b)

Sign(x) == IF x > 0 THEN 1 ELSE IF x < 0 THEN -1 ELSE 0

\* The float n/d of two integers, d possibly 0.
Rat(n, d) ==
    IF d = 0 THEN <<Sign(n), 0>>
    ELSE LET g == GCD(Abs(n), Abs(d))
         IN  <<Sign(d) * (n \div g), Abs(d) \div g>>

Zero == <<0, 1>>
One == <<1, 1>>
NaN == <<0, 0>>

IsFinite(a) == a[2] # 0
IsNaN(a) == a = NaN

\* numpy's elementwise +, *, / on floats, with IEEE non-finite results.
RAdd(a, b) ==
    IF IsFinite(a) /\ IsFinite(b)
    THEN LET g == GCD(a[2], b[2])
         IN  Rat(a[1] * (b[2] \div g) + b[1] * (a[2] \div g), (a[2] \div g) * b[2])
    ELSE IF IsNaN(a) \/ IsNaN(b) THEN NaN
    ELSE IF ~IsFinite(a) /\ ~IsFinite(b) /\ a # b THEN NaN
    ELSE IF IsFinite(a) THEN b ELSE a

RMul(a, b) ==
    IF IsFinite(a) /\ IsFinite(b)
    THEN LET g == GCD(Abs(a[1]), b[2])
             h == GCD(Abs(b[1]), a[2])
         IN  Rat((a[1] \div g) * (b[1] \div h), (a[2] \div h) * (b[2] \div g))
    ELSE IF IsNaN(a) \/ IsNaN(b) \/ a[1] = 0 \/ b[1] = 0 THEN NaN
    ELSE <<Sign(a[1]) * Sign(b[1]), 0>>

RDiv(a, b) ==
    IF IsFinite(a) /\ IsFinite(b)
    THEN (IF b[1] = 0 THEN <<Sign(a[1]), 0>>
          ELSE LET g == GCD(Abs(a[1]), Abs(b[1]))
                   h == GCD(a[2], b[2])
               IN  Rat((a[1] \div g) * (b[2] \div h), (a[2] \div h) * (b[1] \div g)))
    ELSE IF IsNaN(a) \/ IsNaN(b) \/ (~IsFinite(a) /\ ~IsFinite(b)) THEN NaN
    ELSE IF IsFinite(a) THEN Zero
    ELSE <<Sign(a[1]) * (IF b[1] < 0 THEN -1 ELSE 1), 0>>

\* n1/d1 > n2/d2 for d1, d2 > 0, by integer parts and remainders (no
\* product is formed).
RECURSIVE FracGt(_, _, _, _)
FracGt(n1, d1, n2, d2) ==
    LET q1 == n1 \div d1
        q2 == n2 \div d2
        r1 == n1 % d1
        r2 == n2 % d2
    IN  IF q1 # q2 THEN q1 > q2
        ELSE IF r1 = 0 THEN FALSE
        ELSE IF r2 = 0 THEN TRUE
        ELSE FracGt(d2, r2, d1, r1)

\* a > b and a != b on floats: every comparison with NaN is false, except !=.
RGt(a, b) ==
    IF IsNaN(a) \/ IsNaN(b) THEN FALSE
    ELSE IF IsFinite(a) /\ IsFinite(b) THEN FracGt(a[1], a[2], b[1], b[2])
    ELSE IF ~IsFinite(a) /\ ~IsFinite(b) THEN a[1] > b[1]
    ELSE IF IsFinite(a) THEN b[1] < 0 ELSE a[1] > 0

RNe(a, b) == IsNaN(a) \/ IsNaN(b) \/ a # b

RGe(a, b) == RGt(a, b) \/ (~IsNaN(a) /\ ~IsNaN(b) /\ a = b)

\* np.sum of the values f[k], k in the finite integer set S, in index order.
RECURSIVE RSum(_, _)
RSum(f, S) ==
    IF S = {} THEN Zero
    ELSE LET k == CHOOSE x \in S : \A y \in S : x >= y
         IN  RAdd(RSum(f, S \ {k}), f[k])

\* The sum of the integers f[k], k in the finite set S.
RECURSIVE IntSum(_, _)
IntSum(f, S) ==
    IF S = {} THEN 0
    ELSE LET k == CHOOSE x \in S : TRUE IN f[k] + IntSum(f, S \ {k})

\* ------------------------------------------- fixed-point real functions
\* scipy's Gaussian kernel needs a square root, a fifth root and an
\* exponential.  They are computed on non-negative decimals with six places
\* (the integer a stands for a / FixOne), each to within a few 1e-6.
FixOne == 1000000

\* a * b, by three-digit limbs so that no partial product leaves 31 bits
\* (a, b < 46 * FixOne).
FixMul(a, b) ==
    LET aH == a \div 1000
        aL == a % 1000
        bH == b \div 1000
        bL == b % 1000
    IN  aH * bH + (aH * bL + aL * bH + (aL * bL) \div 1000 + 500) \div 1000

\* acc followed by the next `digits` decimals of r / b (0 <= r < b), by long
\* division.
RECURSIVE LongDiv(_, _, _, _)
LongDiv(r, b, digits, acc) ==
    IF digits = 0 THEN acc
    ELSE LongDiv((r * 10) % b, b, digits - 1, acc * 10 + (r * 10) \div b)

\* a / b for a >= 0 and b > 0 of one scale (b < 200 * FixOne).
FixDiv(a, b) == LongDiv(a % b, b, 6, a \div b)

\* r * r <= v exactly, for decimals r and v of six places (r < 46 * FixOne):
\* the square is formed by three-digit limbs, its integer part and its
\* remainder are compared without rounding.
SquareAtMost(r, v) ==
    LET rH == r \div 1000
        rL == r % 1000
        t == 2 * rH * rL
        low == (t % 1000) * 1000 + rL * rL
        whole == rH * rH + t \div 1000 + low \div FixOne
    IN  whole < v \/ (whole = v /\ low % FixOne = 0)

\* The largest r in lo .. hi with r * r <= v, by bisection: sqrt(v) rounded
\* down to six places (sqrt(0) = 0).
RECURSIVE SqrtBetween(_, _, _)
SqrtBetween(v, lo, hi) ==
    IF lo >= hi THEN lo
    ELSE LET mid == (lo + hi + 1) \div 2
         IN  IF SquareAtMost(mid, v) THEN SqrtBetween(v, mid, hi)
             ELSE SqrtBetween(v, lo, mid - 1)
FixSqrt(v) == SqrtBetween(v, 0, 46 * FixOne)

\* The largest r in lo .. hi with n * r^5 <= 1, by bisection: n ** (-1/5).
RECURSIVE FifthRootBetween(_, _, _)
FifthRootBetween(n, lo, hi) ==
    IF lo >= hi THEN lo
    ELSE LET mid == (lo + hi + 1) \div 2
             m2 == FixMul(mid, mid)
             m5 == FixMul(FixMul(m2, m2), mid)
         IN  IF n * m5 <= FixOne THEN FifthRootBetween(n, mid, hi)
             ELSE FifthRootBetween(n, lo, mid - 1)

\* sum of (-r)^i / i! from the term t = r^(i-1) / (i-1)! onwards (0 <= r < 1).
RECURSIVE ExpSeries(_, _, _)
ExpSeries(r, t, i) ==
    IF t = 0 \/ i > 14 THEN 0
    ELSE LET next == FixMul(t, r) \div i
         IN  (IF i % 2 = 1 THEN -next ELSE next) + ExpSeries(r, next, i + 1)

\* e ** (-k) for an integer k >= 0; e ** (-1) = 0.367879.
RECURSIVE ExpNegInt(_)
ExpNegInt(k) == IF k = 0 THEN FixOne ELSE FixMul(367879, ExpNegInt(k - 1))

\* np.exp(-y) for y >= 0: e ** (-floor(y)) times the series at the fraction.
FixExpNeg(y) ==
    IF y >= 20 * FixOne THEN 0
    ELSE FixMul(ExpNegInt(y \div FixOne),
                FixOne + ExpSeries(y % FixOne, FixOne, 1))

\* ------------------------------------------------------------ index sets
Channels(n) == 0 .. n - 1
Fragments(n) == 0 .. n - 1

\* np.zeros((n, n, m)), every cell holding z.
Zeros3(n, m, z) == [i \in Channels(n) |-> [j \in Channels(n) |-> [f \in Fragments(m) |-> z]]]

\* --------------------------------------------------------------- Step 3
\* The signals ip_theta[c, 0, t] and ia_gamma[c, 0, t] of nCh channels and n
\* samples: inputs, each sample identified by its band, channel and time.
ip_theta(nCh, n) == [c \in Channels(nCh) |-> [t \in 0 .. n - 1 |-> <<"theta", c, t>>]]
ia_gamma(nCh, n) == [c \in Channels(nCh) |-> [t \in 0 .. n - 1 |-> <<"gamma", c, t>>]]

\* int(np.shape(npy_data)[1] / G_nFragments)
FragmentLength(n, nFrag) == n \div nFrag

\* signal[:, 0, f * L : (f + 1) * L] for every channel and fragment.
Segment(signal, nCh, nFrag, L) ==
    [c \in Channels(nCh) |-> [f \in Fragments(nFrag) |->
        [k \in 0 .. L - 1 |-> signal[c][f * L + k]]]]

\* --------------------------------------------------------------- Step 4
\* norm.ppf(1 - G_Alpha / nFrag) for G_Alpha = 0.05 and 1 to 25 fragments
\* (25 is the notebook's setting): the quantile is not rational, each entry
\* is the closest fraction to it whose square still has 31-bit terms (all
\* within 3e-7 of the quantile, most within 1e-8).
NormPpf(nFrag) ==
    CASE nFrag = 1 -> Rat(42253, 25688)
      [] nFrag = 2 -> Rat(32653, 16660)
      [] nFrag = 3 -> Rat(40269, 18923)
      [] nFrag = 4 -> Rat(36304, 16197)
      [] nFrag = 5 -> Rat(12211, 5249)
      [] nFrag = 6 -> Rat(12566, 5249)
      [] nFrag = 7 -> Rat(46327, 18909)
      [] nFrag = 8 -> Rat(5987, 2397)
      [] nFrag = 9 -> Rat(45911, 18081)
      [] nFrag = 10 -> Rat(45739, 17757)
      [] nFrag = 11 -> Rat(27187, 10422)
      [] nFrag = 12 -> Rat(16592, 6289)
      [] nFrag = 13 -> Rat(21221, 7962)
      [] nFrag = 14 -> Rat(32666, 12143)
      [] nFrag = 15 -> Rat(39266, 14473)
      [] nFrag = 16 -> Rat(6866, 2511)
      [] nFrag = 17 -> Rat(45977, 16693)
      [] nFrag = 18 -> Rat(16241, 5857)
      [] nFrag = 19 -> Rat(4275, 1532)
      [] nFrag = 20 -> Rat(6066, 2161)
      [] nFrag = 21 -> Rat(39295, 13921)
      [] nFrag = 22 -> Rat(7321, 2580)
      [] nFrag = 23 -> Rat(26855, 9417)
      [] nFrag = 24 -> Rat(18607, 6494)
      [] nFrag = 25 -> Rat(8079, 2807)

\* The surrogate strengths of one oracle call are kept as a bag (value ->
\* multiplicity) of floats n/d: the notebook reads them only through np.mean
\* and np.std.
Flat(c) == c :> n_perm
Alt(lo, hi) == (lo :> (n_perm \div 2)) @@ (hi :> (n_perm - n_perm \div 2))

\* What p.fit leaves in p.pac and p.surrogates.  The oracle (tensorpac) is
\* opaque: a call answers with any of these.  The quiet output is the one
\* any number of calls may answer with; the others are limited by MaxActive.
\* With surrogates half 0, half 2 (mean 1, std 1) the strengths 4, 5 and -4
\* have z = 3, 4 and -5.
QuietOutputs ==
    { [pac |-> 5, surrogates |-> Flat(One)] }
ActiveOutputs ==
    { [pac |-> 4, surrogates |-> Alt(Zero, Rat(2, 1))],
      [pac |-> 5, surrogates |-> Alt(Zero, Rat(2, 1))],
      [pac |-> -4, surrogates |-> Alt(Zero, Rat(2, 1))],
      [pac |-> 3, surrogates |-> Flat(Rat(3, 10))] }

\* sum(x ** p for x in surrogates), p = 1 or 2.
RECURSIVE BagMoment(_, _)
BagMoment(b, p) ==
    IF DOMAIN b = {} THEN Zero
    ELSE LET v == CHOOSE x \in DOMAIN b : TRUE
         IN  RAdd(RMul(Rat(b[v], 1), IF p = 1 THEN v ELSE RMul(v, v)),
                  BagMoment([x \in DOMAIN b \ {v} |-> b[x]], p))

\* np.mean(surrogates).
SurrogateMean(b) == RDiv(BagMoment(b, 1), Rat(BagCardinality(b), 1))

\* Whether np.mean of n_perm copies of the double c is c again (numpy's
\* pairwise sum of the 200 copies, divided by 200).  Integers are summed and
\* divided exactly; for another value it depends on the bits of the double:
\* 0.5 and 0.1 come back, 0.3 comes back as 0.29999999999999993 and 0.01 as
\* 0.009999999999999998.
MeanOfCopiesIsExact(c) ==
    CASE c[2] = 1 -> TRUE
      [] c = Rat(1, 2) -> TRUE
      [] c = Rat(1, 10) -> TRUE
      [] c = Rat(3, 10) -> FALSE
      [] c = Rat(1, 100) -> FALSE

\* The smallest positive float of the model.  It stands for the square of a
\* standard deviation that is rounding residue only (5.6e-17 for 200 copies
\* of 0.3), which is below the resolution of the model's fractions.
Tiny == <<1, 2147483647>>

\* np.std(surrogates) ** 2 (population variance).  Equal surrogates have
\* variance 0 only if their computed mean is their value; otherwise np.std
\* returns the distance of the mean from the value, which is not 0.
SurrogateVar(b) ==
    LET m == SurrogateMean(b)
        v == RAdd(RDiv(BagMoment(b, 2), Rat(BagCardinality(b), 1)),
                  RMul(<<-1, 1>>, RMul(m, m)))
    IN  IF v = Zero /\ ~MeanOfCopiesIsExact(m) THEN Tiny ELSE v

\* z_scores_fragments[i, j, frag].  A z-score z is kept as z * |z|, its
\* signed square: the standard deviation is a square root, and the notebook
\* reads z only through abs(z) > threshold.  Divided by a std of rounding
\* residue, a strength that differs from the surrogates gives a z beyond the
\* model's fractions (about 1e16), kept as an infinite value of its sign; a
\* strength equal to the surrogates gives 1 (the means listed above round
\* downwards).
ZScore(real_pac, b) ==
    LET m == SurrogateMean(b)
        v == SurrogateVar(b)
        d == RAdd(Rat(real_pac, 1), RMul(<<-1, 1>>, m))
    IN  IF v = Zero THEN Zero
        ELSE IF v = Tiny THEN (IF d = Zero THEN One ELSE <<Sign(d[1]), 0>>)
        ELSE RMul(<<Sign(d[1]), 1>>, RDiv(RMul(d, d), v))

\* Mutant of ExceedsThreshold: abs(z) < threshold, the comparison reversed.
ExceedsThresholdReversed(zz, threshold) ==
    \E square \in {RMul(threshold, threshold)} : RGt(square, <<Abs(zz[1]), zz[2]>>)

\* abs(z) > threshold, on the signed square of z.
ExceedsThreshold(zz, threshold) ==
    \E square \in {RMul(threshold, threshold)} : RGt(<<Abs(zz[1]), zz[2]>>, square)

\* significant_pac_values_fragments[i, j, frag] after the test of line 384.
SignificantValue(real_pac, zz, threshold) ==
    IF ExceedsThreshold(zz, threshold) THEN real_pac ELSE 0

\* --------------------------------------------------------------- Step 5
\* a.flatten() of an array a[i][j][frag] (C order), as a sequence.
Flatten(a, nCh, nFrag) ==
    [k \in 1 .. nCh * nCh * nFrag |->
        a[(k - 1) \div (nCh * nFrag)][((k - 1) \div nFrag) % nCh][(k - 1) % nFrag]]

Positive(v) == v > 0

\* flat[flat > 0] * 1e5
PooledPopulation(sig, nCh, nFrag) ==
    LET kept == SelectSeq(Flatten(sig, nCh, nFrag), Positive)
    IN  [k \in 1 .. Len(kept) |-> kept[k] * Scale]

\* np.abs(population), the dataset handed to gaussian_kde.
AbsPopulation(pop) == [k \in 1 .. Len(pop) |-> Abs(pop[k])]

SeqMax(s) == CHOOSE x \in {s[k] : k \in 1 .. Len(s)} : \A k \in 1 .. Len(s) : x >= s[k]
SeqMin(s) == CHOOSE x \in {s[k] : k \in 1 .. Len(s)} : \A k \in 1 .. Len(s) : x <= s[k]

\* ------------------------------------------------------- gaussian_kde
\* Whether np.cov's weighted average of n copies of the double v, the sum of
\* the n products v * (1 / n) over the sum of the weights, is v again.  With
\* 2 or 4 copies the weights are exact; otherwise it depends on the bits of
\* v.  Listed for up to 7 copies of v = k * Scale, k in 1 .. 10.
WeightedAverageIsExact(n, v) ==
    LET k == v \div Scale
    IN  CASE n \in {2, 4, 5} -> TRUE
          [] n = 3 -> k \notin {1, 2, 4, 8}
          [] n = 6 -> k \notin {1, 2, 3, 4, 6, 8, 9}
          [] n = 7 -> k \notin {1, 2, 4, 5, 7, 8, 9, 10}

\* The exception gaussian_kde(dataset) raises, "" when it fits: scipy refuses
\* a dataset of fewer than two elements (ValueError) and one whose covariance
\* is exactly 0 (LinAlgError).  Equal elements have covariance 0 only if
\* their computed average is their value; otherwise the covariance is
\* rounding residue (5e-21 for three times 400000) and the fit succeeds.
KdeFitError(dataset) ==
    IF Len(dataset) <= 1 THEN "ValueError"
    ELSE IF /\ SeqMax(dataset) = SeqMin(dataset)
            /\ WeightedAverageIsExact(Len(dataset), dataset[1]) THEN "LinAlgError"
    ELSE ""

\* sqrt(2 * pi)
Sqrt2Pi == 2506628

\* The density of a model fitted to equal elements, at that element: with a
\* covariance of rounding residue it is about 7e9, beyond the model's
\* fractions; Huge stands for it.
Huge == <<100000000, 1>>

\* The greatest common divisor of s[1], ..., s[k] and g.
RECURSIVE SeqGCD(_, _, _)
SeqGCD(s, k, g) == IF k = 0 THEN g ELSE SeqGCD(s, k - 1, GCD(s[k], g))

\* gaussian_kde(dataset) for a dataset of positive integers that fits: the
\* object's dataset, then (in units of the common divisor of the values, in
\* fixed-point arithmetic) its factor n ** (-1/5) (Scott's rule), its
\* covariance factor^2 * (sample variance, ddof = 1), and the normalisation
\* sqrt(2 pi covariance).  The covariance of equal elements, rounding residue,
\* is 0 at this resolution.
KdeFit(dataset) ==
    LET n == Len(dataset)
        g == SeqGCD(dataset, n, 0)
        D == [k \in 1 .. n |-> dataset[k] \div g]
        sum == IntSum(D, 1 .. n)
        sumsq == IntSum([k \in 1 .. n |-> D[k] * D[k]], 1 .. n)
        variance == FixDiv(n * sumsq - sum * sum, n * (n - 1))
        factor == FifthRootBetween(n, 0, FixOne)
        covariance == FixMul(FixMul(factor, factor), variance)
    IN  <<dataset, g, factor, covariance, FixMul(FixSqrt(covariance), Sqrt2Pi)>>

\* kde_fragments(x): the density at x of the fitted model kde, the mean over
\* the dataset of the Gaussian kernels
\*   exp(-(x - p)^2 / (2 covariance)) / sqrt(2 pi covariance),
\* returned to four decimals of the density per unit (values within 46
\* units of x).
KdeEvaluate(kde, x) ==
    LET dataset == kde[1]
        g == kde[2]
        covariance == kde[4]
        n == Len(dataset)
        d2 == [k \in 1 .. n |->
                  LET d == FixDiv(Abs(x - dataset[k]), g) IN FixMul(d, d)]
        kernel == [k \in 1 .. n |->
                      IF d2[k] \div (2 * covariance) >= 20 THEN 0
                      ELSE FixExpNeg(FixDiv(d2[k], 2 * covariance))]
        unit == FixDiv(IntSum(kernel, 1 .. n), n * kde[5])
    IN  IF covariance = 0
        THEN (IF x = dataset[1] THEN Huge ELSE Zero)
        ELSE Rat((unit + 50) \div 100, 10000 * g)

\* significant_pac_counts_by_destination and P_i (lines 485-492).
SignificantCounts(sig, nCh, nFrag) ==
    [i \in Channels(nCh) |->
        Cardinality({jf \in Channels(nCh) \X Fragments(nFrag) : sig[i][jf[1]][jf[2]] > 0})]

\* Mutant of Prior: the counts taken by the second index (the channel whose
\* amplitude was passed) instead of the first.
PriorBySecondIndex(sig, nCh, nFrag) ==
    LET counts == [j \in Channels(nCh) |->
                      Cardinality({c \in Channels(nCh) \X Fragments(nFrag) :
                                      sig[c[1]][j][c[2]] > 0})]
        total_significant_pacs == IntSum(counts, Channels(nCh))
    IN  [i \in Channels(nCh) |-> RDiv(Rat(counts[i], 1), Rat(total_significant_pacs, 1))]

Prior(sig, nCh, nFrag) ==
    LET counts == SignificantCounts(sig, nCh, nFrag)
        total_significant_pacs == IntSum(counts, Channels(nCh))
    IN  [i \in Channels(nCh) |-> RDiv(Rat(counts[i], 1), Rat(total_significant_pacs, 1))]

\* The first loop of the P(x|i) cell (lines 513-519): the density at every
\* significant value, 0 elsewhere.
RawLikelihood(sig, kde, nCh, nFrag) ==
    [i \in Channels(nCh) |-> [j \in Channels(nCh) |-> [f \in Fragments(nFrag) |->
        IF sig[i][j][f] > 0 THEN KdeEvaluate(kde, sig[i][j][f] * Scale) ELSE Zero]]]

\* np.sum(P_x_given_i[:, :, frag], axis=0): one sum per second index.
LikelihoodSum(raw, nCh, frag) ==
    [j \in Channels(nCh) |-> RSum([i \in Channels(nCh) |-> raw[i][j][frag]], Channels(nCh))]

\* Mutant of SafeDivide: the division without its where= guard.
UnguardedDivide(a, d, nCh) ==
    [i \in Channels(nCh) |-> [j \in Channels(nCh) |-> RDiv(a[i][j], d[j])]]

\* np.divide(a, d, out=zeros, where=d != 0) with d broadcast along the last
\* axis of the matrix a: entry [i][j] is divided by d[j].
SafeDivide(a, d, nCh) ==
    [i \in Channels(nCh) |-> [j \in Channels(nCh) |->
        IF RNe(d[j], Zero) THEN RDiv(a[i][j], d[j]) ELSE Zero]]

\* The second loop of the P(x|i) cell (lines 522-526).
NormalizedLikelihood(raw, nCh, nFrag) ==
    LET norm(f) == SafeDivide([i \in Channels(nCh) |-> [j \in Channels(nCh) |-> raw[i][j][f]]],
                              LikelihoodSum(raw, nCh, f), nCh)
    IN  [i \in Channels(nCh) |-> [j \in Channels(nCh) |-> [f \in Fragments(nFrag) |->
            norm(f)[i][j]]]]

\* Mutant of SignificantFraction: np.mean(a, axis=2), the mean of the values.
MeanOverFragments(a, nCh, nFrag) ==
    [i \in Channels(nCh) |-> [j \in Channels(nCh) |->
        RDiv(RSum(a[i][j], Fragments(nFrag)), Rat(nFrag, 1))]]

\* counts += (a[:, :, frag] > 0).astype(int) over all fragments, then
\* counts / G_nFragments.
SignificantFraction(a, nCh, nFrag) ==
    [i \in Channels(nCh) |-> [j \in Channels(nCh) |->
        Rat(Cardinality({f \in Fragments(nFrag) : RGt(a[i][j][f], Zero)}), nFrag)]]

\* Mutant of Evidence: the column sums of the likelihood, the prior left out.
EvidenceWithoutPrior(prior, lik, nCh, nFrag) ==
    [j \in Channels(nCh) |-> [f \in Fragments(nFrag) |->
        RSum([i \in Channels(nCh) |-> lik[i][j][f]], Channels(nCh))]]

\* P_x[:, frag] = np.dot(P_i, P_x_given_i[:, :, frag])
Evidence(prior, lik, nCh, nFrag) ==
    [j \in Channels(nCh) |-> [f \in Fragments(nFrag) |->
        RSum([i \in Channels(nCh) |-> RMul(prior[i], lik[i][j][f])], Channels(nCh))]]

\* (P_x_given_i[:, :, frag].T * P_i).T, then the guarded division by
\* P_x[:, frag] (lines 570-573).
Posterior(prior, lik, evidence, nCh, nFrag) ==
    LET post(f) == SafeDivide([i \in Channels(nCh) |-> [j \in Channels(nCh) |->
                                  RMul(lik[i][j][f], prior[i])]],
                              [j \in Channels(nCh) |-> evidence[j][f]], nCh)
    IN  [i \in Channels(nCh) |-> [j \in Channels(nCh) |-> [f \in Fragments(nFrag) |->
            post(f)[i][j]]]]

\* Mutant of Threshold: np.where(m > tau, m, 0), the strict comparison.
ThresholdStrict(m, tau, nCh) ==
    [i \in Channels(nCh) |-> [j \in Channels(nCh) |->
        IF RGt(m[i][j], tau) THEN m[i][j] ELSE Zero]]

\* np.where(m >= tau, m, 0)
Threshold(m, tau, nCh) ==
    [i \in Channels(nCh) |-> [j \in Channels(nCh) |->
        IF RGe(m[i][j], tau) THEN m[i][j] ELSE Zero]]

\* The 0.1 of the Results cell.
DisplayThreshold == Rat(1, 10)

\* ---------------------------------------------------------------- state
VARIABLES
    G_nChannels, G_nFragments, G_nSurrogates,   \* Global Vars cell
    nSamples,                                   \* np.shape(npy_data)[1]
    pc, frag, exception,                        \* cell, loop index, error raised
    L_fLength, ip_theta_fragments, ia_gamma_fragments,
    G_zThreshold_Bonferroni,
    pac_values_fragments, surrogate_pac_values_fragments,
    z_scores_fragments, significant_pac_values_fragments,
    significant_pac_values_flat_fragments, kde_fragments,
    P_i, P_x_given_i, P_x_given_i_mean, P_x,
    P_i_given_x_fragments, P_i_given_x_mean, P_i_given_x_thresholded

config == <<G_nChannels, G_nFragments, G_nSurrogates, nSamples>>
step3 == <<L_fLength, ip_theta_fragments, ia_gamma_fragments>>
step4pac == <<G_zThreshold_Bonferroni, pac_values_fragments, surrogate_pac_values_fragments>>
step4z == <<z_scores_fragments, significant_pac_values_fragments>>
density == <<significant_pac_values_flat_fragments, kde_fragments>>
likelihood == <<P_x_given_i, P_x_given_i_mean>>
bayes == <<P_i_given_x_fragments, P_i_given_x_mean>>
vars == <<config, pc, frag, exception, step3, step4pac, step4z, density,
          P_i, likelihood, P_x, bayes, P_i_given_x_thresholded>>

\* The value of a name no cell has bound yet: no array, population or
\* threshold of the notebook equals it.
Unassigned == (-1 :> 0)
Assigned(v) == v # Unassigned

\* The configuration is an input: the notebook's Global Vars cell is edited
\* per data set.  The signal is at least one sample per fragment long.
Init ==
    /\ G_nChannels \in 1 .. MaxChannels
    /\ G_nFragments \in 1 .. MaxFragments
    /\ G_nSurrogates \in {n_perm, n_perm \div 2}
    /\ nSamples \in G_nFragments .. MaxSamples
    /\ pc = "segmentation"
    /\ frag = 0
    /\ exception = ""
    /\ L_fLength = Unassigned
    /\ ip_theta_fragments = Unassigned
    /\ ia_gamma_fragments = Unassigned
    /\ G_zThreshold_Bonferroni = Unassigned
    /\ pac_values_fragments = Unassigned
    /\ surrogate_pac_values_fragments = Unassigned
    /\ z_scores_fragments = Unassigned
    /\ significant_pac_values_fragments = Unassigned
    /\ significant_pac_values_flat_fragments = Unassigned
    /\ kde_fragments = Unassigned
    /\ P_i = Unassigned
    /\ P_x_given_i = Unassigned
    /\ P_x_given_i_mean = Unassigned
    /\ P_x = Unassigned
    /\ P_i_given_x_fragments = Unassigned
    /\ P_i_given_x_mean = Unassigned
    /\ P_i_given_x_thresholded = Unassigned

\* Step 3: Segmentation cell.
Segmentation ==
    /\ pc = "segmentation"
    /\ L_fLength' = FragmentLength(nSamples, G_nFragments)
    /\ ip_theta_fragments' = Segment(ip_theta(G_nChannels, nSamples), G_nChannels, G_nFragments, L_fLength')
    /\ ia_gamma_fragments' = Segment(ia_gamma(G_nChannels, nSamples), G_nChannels, G_nFragments, L_fLength')
    /\ pc' = "pac"
    /\ frag' = 0
    /\ UNCHANGED <<config, exception, step4pac, step4z, density, P_i, likelihood,
                   P_x, bayes, P_i_given_x_thresholded>>

\* The oracle calls of the fragments already written that were not quiet.
ActiveCalls ==
    {t \in Channels(G_nChannels) \X Channels(G_nChannels) \X Fragments(frag) :
        [pac |-> pac_values_fragments[t[1]][t[2]][t[3]],
         surrogates |-> surrogate_pac_values_fragments[t[1]][t[2]][t[3]]] \in ActiveOutputs}

\* a with a[i][j][f] := new[i][j] for every i, j.
WriteFragment(a, f, new) ==
    [i \in DOMAIN a |-> [j \in DOMAIN a[i] |-> [a[i][j] EXCEPT ![f] = new[i][j]]]]

\* Step 4 cell, first loop (lines 358-367): iteration frag.  Call (i, j) is
\* p.fit(ip_theta_fragments[i, frag], ia_gamma_fragments[j, frag], n_perm=200):
\* the first index is the channel whose phase is passed, the second the
\* channel whose amplitude is passed.  Iteration 0 starts with the cell's
\* lines 344-355.  p.surrogates holds n_perm values; reshape(G_nSurrogates)
\* raises ValueError on the first call when the two differ, after line 365
\* has stored that call's strength.
PacFit ==
    /\ pc = "pac"
    /\ LET pac0 == IF frag = 0 THEN Zeros3(G_nChannels, G_nFragments, 0)
                   ELSE pac_values_fragments
           sur0 == IF frag = 0
                   THEN Zeros3(G_nChannels, G_nFragments, Zero :> G_nSurrogates)
                   ELSE surrogate_pac_values_fragments
           cells == Channels(G_nChannels) \X Channels(G_nChannels)
           used == IF frag = 0 THEN 0 ELSE Cardinality(ActiveCalls)
       IN  /\ G_zThreshold_Bonferroni' = NormPpf(G_nFragments)
           /\ \/ /\ G_nSurrogates # n_perm
                 /\ \E o \in QuietOutputs \cup ActiveOutputs :
                       pac_values_fragments' =
                           [pac0 EXCEPT ![0][0][0] = o.pac]
                 /\ surrogate_pac_values_fragments' = sur0
                 /\ exception' = "ValueError"
                 /\ pc' = "raised"
                 /\ frag' = frag
              \/ /\ G_nSurrogates = n_perm
                 /\ \E q \in QuietOutputs :
                    \E A \in {S \in SUBSET cells : Cardinality(S) + used <= MaxActive} :
                    \E o \in [A -> ActiveOutputs] :
                       LET p(i, j) == IF <<i, j>> \in A THEN o[<<i, j>>] ELSE q
                       IN  /\ pac_values_fragments' = WriteFragment(pac0, frag,
                                 [i \in Channels(G_nChannels) |->
                                     [j \in Channels(G_nChannels) |-> p(i, j).pac]])
                           /\ surrogate_pac_values_fragments' = WriteFragment(sur0, frag,
                                 [i \in Channels(G_nChannels) |->
                                     [j \in Channels(G_nChannels) |-> p(i, j).surrogates]])
                 /\ exception' = exception
                 /\ IF frag + 1 < G_nFragments
                    THEN pc' = "pac" /\ frag' = frag + 1
                    ELSE pc' = "zscore" /\ frag' = 0
    /\ UNCHANGED <<config, step3, step4z, density, P_i, likelihood, P_x, bayes,
                   P_i_given_x_thresholded>>

\* Mutant of ZScoreLoop: the loop left after its first iteration, as if the
\* Histogram/KDE cell's fit stood inside the loop over the fragments.
ZScoreLoopLeftEarly ==
    /\ pc = "zscore"
    /\ LET z == [i \in Channels(G_nChannels) |-> [j \in Channels(G_nChannels) |->
                    ZScore(pac_values_fragments[i][j][frag],
                           surrogate_pac_values_fragments[i][j][frag])]]
       IN  /\ z_scores_fragments' =
                 WriteFragment(Zeros3(G_nChannels, G_nFragments, Zero), frag, z)
           /\ significant_pac_values_fragments' =
                 WriteFragment(Zeros3(G_nChannels, G_nFragments, 0), frag,
                     [i \in Channels(G_nChannels) |-> [j \in Channels(G_nChannels) |->
                         SignificantValue(pac_values_fragments[i][j][frag], z[i][j],
                                          G_zThreshold_Bonferroni)]])
    /\ pc' = "kde" /\ frag' = 0
    /\ UNCHANGED <<config, exception, step3, step4pac, density, P_i, likelihood,
                   P_x, bayes, P_i_given_x_thresholded>>

\* Step 4 cell, second loop (lines 373-385): iteration frag.  Iteration 0
\* starts with the allocations of lines 370-371.
ZScoreLoop ==
    /\ pc = "zscore"
    /\ LET z0 == IF frag = 0 THEN Zeros3(G_nChannels, G_nFragments, Zero)
                 ELSE z_scores_fragments
           s0 == IF frag = 0 THEN Zeros3(G_nChannels, G_nFragments, 0)
                 ELSE significant_pac_values_fragments
       IN  \E z \in {[i \in Channels(G_nChannels) |-> [j \in Channels(G_nChannels) |->
                    ZScore(pac_values_fragments[i][j][frag],
                           surrogate_pac_values_fragments[i][j][frag])]]} :
           /\ z_scores_fragments' = WriteFragment(z0, frag, z)
           /\ significant_pac_values_fragments' = WriteFragment(s0, frag,
                 [i \in Channels(G_nChannels) |-> [j \in Channels(G_nChannels) |->
                     SignificantValue(pac_values_fragments[i][j][frag], z[i][j],
                                      G_zThreshold_Bonferroni)]])
    /\ IF frag + 1 < G_nFragments
       THEN pc' = "zscore" /\ frag' = frag + 1
       ELSE pc' = "kde" /\ frag' = 0
    /\ UNCHANGED <<config, exception, step3, step4pac, density, P_i, likelihood,
                   P_x, bayes, P_i_given_x_thresholded>>

\* Mutant of FitKDE: the cell goes on to the next one when the fit raises,
\* as if the error were caught and dropped.
FitKDEErrorDropped ==
    /\ pc = "kde"
    /\ significant_pac_values_flat_fragments' =
           PooledPopulation(significant_pac_values_fragments, G_nChannels, G_nFragments)
    /\ LET dataset == AbsPopulation(significant_pac_values_flat_fragments')
       IN  kde_fragments' = IF KdeFitError(dataset) # "" THEN kde_fragments
                            ELSE KdeFit(dataset)
    /\ pc' = "prior"
    /\ UNCHANGED <<config, frag, exception, step3, step4pac, step4z, P_i, likelihood,
                   P_x, bayes, P_i_given_x_thresholded>>

\* Histogram/KDE cell (lines 437-441): the pooled population, then the fit,
\* which raises on a population it cannot fit.
FitKDE ==
    /\ pc = "kde"
    /\ significant_pac_values_flat_fragments' =
           PooledPopulation(significant_pac_values_fragments, G_nChannels, G_nFragments)
    /\ LET dataset == AbsPopulation(significant_pac_values_flat_fragments')
       IN  IF KdeFitError(dataset) # ""
           THEN /\ exception' = KdeFitError(dataset)
                /\ kde_fragments' = kde_fragments
                /\ pc' = "raised"
           ELSE /\ exception' = exception
                /\ kde_fragments' = KdeFit(dataset)
                /\ pc' = "prior"
    /\ UNCHANGED <<config, frag, step3, step4pac, step4z, P_i, likelihood, P_x,
                   bayes, P_i_given_x_thresholded>>

\* Computing P(i) cell.
ComputePrior ==
    /\ pc = "prior"
    /\ P_i' = Prior(significant_pac_values_fragments, G_nChannels, G_nFragments)
    /\ pc' = "likelihood"
    /\ UNCHANGED <<config, frag, exception, step3, step4pac, step4z, density,
                   likelihood, P_x, bayes, P_i_given_x_thresholded>>

\* Computing P(x|i) cell.
ComputeLikelihood ==
    /\ pc = "likelihood"
    /\ \E raw \in {RawLikelihood(significant_pac_values_fragments, kde_fragments,
                                 G_nChannels, G_nFragments)} :
           P_x_given_i' = NormalizedLikelihood(raw, G_nChannels, G_nFragments)
    /\ P_x_given_i_mean' = SignificantFraction(P_x_given_i', G_nChannels, G_nFragments)
    /\ pc' = "evidence"
    /\ UNCHANGED <<config, frag, exception, step3, step4pac, step4z, density, P_i,
                   P_x, bayes, P_i_given_x_thresholded>>

\* Computing P(x) cell.
ComputeEvidence ==
    /\ pc = "evidence"
    /\ P_x' = Evidence(P_i, P_x_given_i, G_nChannels, G_nFragments)
    /\ pc' = "bayes"
    /\ UNCHANGED <<config, frag, exception, step3, step4pac, step4z, density, P_i,
                   likelihood, bayes, P_i_given_x_thresholded>>

\* Applying Bayes' Theorem cell.
ApplyBayes ==
    /\ pc = "bayes"
    /\ P_i_given_x_fragments' = Posterior(P_i, P_x_given_i, P_x, G_nChannels, G_nFragments)
    /\ P_i_given_x_mean' =
           SignificantFraction(P_i_given_x_fragments', G_nChannels, G_nFragments)
    /\ pc' = "results"
    /\ UNCHANGED <<config, frag, exception, step3, step4pac, step4z, density, P_i,
                   likelihood, P_x, P_i_given_x_thresholded>>

\* Results cell (line 597).
Results ==
    /\ pc = "results"
    /\ P_i_given_x_thresholded' = Threshold(P_i_given_x_mean, DisplayThreshold, G_nChannels)
    /\ pc' = "done"
    /\ UNCHANGED <<config, frag, exception, step3, step4pac, step4z, density, P_i,
                   likelihood, P_x, bayes>>

Next ==
    \/ Segmentation
    \/ PacFit
    \/ ZScoreLoop
    \/ FitKDE
    \/ ComputePrior
    \/ ComputeLikelihood
    \/ ComputeEvidence
    \/ ApplyBayes
    \/ Results

Spec == Init /\ [][Next]_vars

\* --------------------------------------------------------------- claims
Ch == Channels(G_nChannels)
Fr == Fragments(G_nFragments)

\* The oracle call with the phase of channel i and the amplitude of channel
\* j in fragment f crossed the z-threshold.
Crossed(i, j, f) == ExceedsThreshold(z_scores_fragments[i][j][f], G_zThreshold_Bonferroni)

\* Step 4 has run to its end.
Step4Complete == pc \notin {"segmentation", "pac", "zscore"} /\ Assigned(z_scores_fragments)

InUnitInterval(r) == IsFinite(r) /\ RGe(r, Zero) /\ RGe(One, r)

\* C1: every entry of the per-fragment posterior matrices and of the
\* aggregate posterior matrix is a finite value in [0, 1].
C1_PosteriorsInUnitInterval ==
    /\ Assigned(P_i_given_x_fragments) =>
           \A i \in Ch, x \in Ch, f \in Fr : InUnitInterval(P_i_given_x_fragments[i][x][f])
    /\ Assigned(P_i_given_x_mean) =>
           \A i \in Ch, x \in Ch : InUnitInterval(P_i_given_x_mean[i][x])

\* A finished run that met a zero surrogate std, a zero likelihood sum and a
\* zero evidence, and holds a posterior strictly between 0 and 1.
C1_Witness ==
    /\ pc = "done"
    /\ \E i \in Ch, j \in Ch, f \in Fr :
           SurrogateVar(surrogate_pac_values_fragments[i][j][f]) = Zero
    /\ \E x \in Ch, f \in Fr : P_x[x][f] = Zero
    /\ \E i \in Ch, x \in Ch, f \in Fr :
           RGt(P_i_given_x_fragments[i][x][f], Zero) /\ RGt(One, P_i_given_x_fragments[i][x][f])

\* C2: in every fragment, for every second index x with P(x) > 0, the
\* per-fragment posteriors summed over the first index give exactly 1.
C2_PosteriorsSumToOne ==
    Assigned(P_i_given_x_fragments) =>
        \A x \in Ch, f \in Fr :
            RGt(P_x[x][f], Zero) =>
                RSum([i \in Ch |-> P_i_given_x_fragments[i][x][f]], Ch) = One

\* A column with positive evidence shared by two unequal posteriors.
C2_Witness ==
    /\ Assigned(P_i_given_x_fragments)
    /\ \E x \in Ch, f \in Fr, i \in Ch, k \in Ch :
           /\ RGt(P_x[x][f], Zero)
           /\ i # k
           /\ RGt(P_i_given_x_fragments[i][x][f], P_i_given_x_fragments[k][x][f])
           /\ RGt(P_i_given_x_fragments[k][x][f], Zero)

\* C3 (as claimed): when only the calls given the phase of channel 0 and the
\* amplitude of channel 1 cross the threshold, the prior is P(1) = 1 and 0
\* elsewhere, and the aggregate posterior has the fraction of those fragments
\* at row 1, column 0 and 0 elsewhere.
C3_AmplitudeChannelIsDestination ==
    ( /\ pc = "done"
      /\ G_nChannels >= 2
      /\ \E f \in Fr : Crossed(0, 1, f)
      /\ \A i \in Ch, j \in Ch, f \in Fr : Crossed(i, j, f) => (i = 0 /\ j = 1) )
    => /\ \A i \in Ch : P_i[i] = IF i = 1 THEN One ELSE Zero
       /\ \A i \in Ch, x \in Ch :
              P_i_given_x_mean[i][x] =
                  IF i = 1 /\ x = 0
                  THEN Rat(Cardinality({f \in Fr : Crossed(0, 1, f)}), G_nFragments)
                  ELSE Zero

\* The raw likelihood of the fragment array, before its normalisation.
RawOf(i, x, f) ==
    RawLikelihood(significant_pac_values_fragments, kde_fragments,
                  G_nChannels, G_nFragments)[i][x][f]

\* C4 (as claimed): in every fragment each first-index row i of P_x_given_i
\* whose raw likelihoods are not all zero sums to 1 over the second index,
\* each entry being the raw value over the raw sum of row i; a row whose raw
\* sum is zero stays zero.
C4_LikelihoodRowsSumToOne ==
    Assigned(P_x_given_i) =>
        \A i \in Ch, f \in Fr :
            LET rowsum == RSum([x \in Ch |-> RawOf(i, x, f)], Ch)
            IN  IF rowsum # Zero
                THEN /\ RSum([x \in Ch |-> P_x_given_i[i][x][f]], Ch) = One
                     /\ \A x \in Ch : P_x_given_i[i][x][f] = RDiv(RawOf(i, x, f), rowsum)
                ELSE \A x \in Ch : P_x_given_i[i][x][f] = Zero

\* C5 (as claimed): once the significance decisions are all made and the
\* run has ended, the prior table sums to 1 if some observation crossed the
\* threshold and is all zeros if none did.
C5_PriorSumsToOneOrIsZero ==
    (Step4Complete /\ pc \in {"done", "raised"}) =>
        /\ Assigned(P_i)
        /\ IF \E i \in Ch, j \in Ch, f \in Fr : Crossed(i, j, f)
           THEN RSum(P_i, Ch) = One
           ELSE \A i \in Ch : P_i[i] = Zero

\* C6: every entry of P_i_given_x_mean is the number of fragments whose
\* per-fragment posterior is nonzero, divided by the number of fragments.
C6_AggregateIsPrevalence ==
    Assigned(P_i_given_x_mean) =>
        \A i \in Ch, x \in Ch :
            P_i_given_x_mean[i][x] =
                Rat(Cardinality({f \in Fr : P_i_given_x_fragments[i][x][f] # Zero}),
                    G_nFragments)

\* An aggregate entry that differs from the mean of the per-fragment values.
C6_Witness ==
    /\ Assigned(P_i_given_x_mean)
    /\ \E i \in Ch, x \in Ch :
           /\ RGt(P_i_given_x_mean[i][x], Zero)
           /\ P_i_given_x_mean[i][x] #
                  RDiv(RSum(P_i_given_x_fragments[i][x], Fr), Rat(G_nFragments, 1))

\* The fragments whose significance decisions are written.
Decided ==
    IF ~Assigned(z_scores_fragments) THEN {}
    ELSE IF pc = "zscore" THEN Fragments(frag)
    ELSE Fr

\* (strength - mean)^2 and threshold^2 * variance of the call (i, j, f).
Deviation2(i, j, f) ==
    LET d == RAdd(Rat(pac_values_fragments[i][j][f], 1),
                  RMul(<<-1, 1>>, SurrogateMean(surrogate_pac_values_fragments[i][j][f])))
    IN  RMul(d, d)
Tolerance2(i, j, f) ==
    RMul(RMul(G_zThreshold_Bonferroni, G_zThreshold_Bonferroni),
         SurrogateVar(surrogate_pac_values_fragments[i][j][f]))

\* The surrogates of the call (i, j, f) all coincide (their std is 0).
Coincide(i, j, f) == Cardinality(DOMAIN surrogate_pac_values_fragments[i][j][f]) = 1

\* C7 (as claimed): for every decided triple, z is 0 when the surrogates
\* coincide and otherwise z^2 = (strength - mean)^2 / variance with the sign
\* of strength - mean; the stored value is the strength when |z| > threshold,
\* i.e. (strength - mean)^2 > threshold^2 * variance, and 0 otherwise; a
\* triple whose surrogates coincide is never significant.
C7_SignificanceDecision ==
    \A i \in Ch, j \in Ch, f \in Decided :
        LET z == z_scores_fragments[i][j][f]
            stored == significant_pac_values_fragments[i][j][f]
            strength == pac_values_fragments[i][j][f]
        IN  /\ Coincide(i, j, f) => (z = Zero /\ stored = 0)
            /\ ~Coincide(i, j, f) =>
                   /\ RMul(<<Abs(z[1]), z[2]>>,
                           SurrogateVar(surrogate_pac_values_fragments[i][j][f]))
                          = Deviation2(i, j, f)
                   /\ Sign(z[1]) = Sign(RAdd(Rat(strength, 1),
                          RMul(<<-1, 1>>,
                               SurrogateMean(surrogate_pac_values_fragments[i][j][f])))[1])
                   /\ stored = IF RGt(Deviation2(i, j, f), Tolerance2(i, j, f))
                               THEN strength ELSE 0

\* C8 (as claimed): a signal length that the fragment count does not divide
\* stops the run in the Segmenter; whenever fragments are produced,
\* G_nFragments * L_fLength is the signal length and the fragments hold
\* every sample once, in temporal order.
C8_SegmenterRejectsRemainder ==
    pc # "segmentation" =>
        IF nSamples % G_nFragments # 0
        THEN pc = "raised" /\ ~Assigned(ip_theta_fragments)
        ELSE /\ G_nFragments * L_fLength = nSamples
             /\ \A c \in Ch, t \in 0 .. nSamples - 1 :
                    ip_theta_fragments[c][t \div L_fLength][t % L_fLength]
                        = ip_theta(G_nChannels, nSamples)[c][t]

\* The number of times v occurs in the sequence s.
Occurrences(s, v) == Cardinality({k \in 1 .. Len(s) : s[k] = v})

\* The Histogram/KDE cell has pooled the population (which may be empty).
Pooled == Step4Complete /\ pc # "kde"

\* C9 (as claimed): the pooled population holds exactly one value per triple
\* that crossed the threshold, the absolute value of its scaled strength,
\* negative strengths included.
C9_PopulationHoldsEverySignificant ==
    Pooled =>
        LET population == AbsPopulation(significant_pac_values_flat_fragments)
            crossed(v) == {t \in Ch \X Ch \X Fr :
                              /\ Crossed(t[1], t[2], t[3])
                              /\ Abs(pac_values_fragments[t[1]][t[2]][t[3]] * Scale) = v}
        IN  /\ Len(population) =
                   Cardinality({t \in Ch \X Ch \X Fr : Crossed(t[1], t[2], t[3])})
            /\ \A k \in 1 .. Len(population) :
                   Occurrences(population, population[k]) = Cardinality(crossed(population[k]))

\* C10: when no observation crossed the threshold, the run stops in the
\* density fit with an error, and no prior, likelihood, evidence or
\* posterior is ever assigned.
C10_NoSignificantAbortsAtDensity ==
    (Step4Complete /\ \A i \in Ch, j \in Ch, f \in Fr : ~Crossed(i, j, f)) =>
        /\ pc \in {"kde", "raised"}
        /\ pc = "raised" => exception = "ValueError"
        /\ ~Assigned(kde_fragments)
        /\ ~Assigned(P_i)
        /\ ~Assigned(P_x_given_i)
        /\ ~Assigned(P_x)
        /\ ~Assigned(P_i_given_x_fragments)
        /\ ~Assigned(P_i_given_x_mean)

\* The run of 2 channels and 2 fragments in which every call answered
\* strength 5 with all-equal surrogates has stopped in the density fit.
C10_Witness ==
    /\ pc = "raised"
    /\ Step4Complete
    /\ G_nChannels = 2
    /\ G_nFragments = 2
    /\ \A i \in Ch, j \in Ch, f \in Fr :
           /\ pac_values_fragments[i][j][f] = 5
           /\ surrogate_pac_values_fragments[i][j][f] = Flat(One)
           /\ z_scores_fragments[i][j][f] = Zero

\* Thresholds the filter of the Results cell is examined at: 0, the 0.1 of
\* the cell, and two values that aggregate entries take.
Taus == {Zero, DisplayThreshold, Rat(1, 2), One}

\* The aggregate the Bayes cell computed from the per-fragment posteriors.
AggregateOfFragments ==
    SignificantFraction(P_i_given_x_fragments, G_nChannels, G_nFragments)

\* C11: at every threshold tau, np.where(m >= tau, m, 0) of the aggregate
\* posterior matrix turns every entry strictly below tau into 0 and returns
\* every entry >= tau (one equal to tau included) unchanged; filtering the
\* result again changes nothing; tau = 0 returns the matrix; and after the
\* Results cell P_i_given_x_thresholded is the filter at 0.1 of
\* P_i_given_x_mean, which still holds what the Bayes cell computed.
C11_ThresholdFilter ==
    Assigned(P_i_given_x_mean) =>
        /\ \A tau \in Taus :
               LET out == Threshold(P_i_given_x_mean, tau, G_nChannels)
               IN  /\ \A i \in Ch, x \in Ch :
                          /\ RGt(tau, P_i_given_x_mean[i][x]) => out[i][x] = Zero
                          /\ ~RGt(tau, P_i_given_x_mean[i][x]) =>
                                 out[i][x] = P_i_given_x_mean[i][x]
                   /\ Threshold(out, tau, G_nChannels) = out
        /\ Threshold(P_i_given_x_mean, Zero, G_nChannels) = P_i_given_x_mean
        /\ P_i_given_x_mean = AggregateOfFragments
        /\ pc = "done" =>
               \A i \in Ch, x \in Ch :
                   P_i_given_x_thresholded[i][x] =
                       IF RGt(DisplayThreshold, P_i_given_x_mean[i][x])
                       THEN Zero ELSE P_i_given_x_mean[i][x]

\* A finished run whose aggregate holds an entry equal to the threshold 1/2
\* (kept at 1/2, zeroed at 1), an entry 1 and an entry 0, and whose filtered
\* matrix kept the entries above 0.1.
C11_Witness ==
    /\ pc = "done"
    /\ \E i \in Ch, x \in Ch :
           /\ P_i_given_x_mean[i][x] = Rat(1, 2)
           /\ Threshold(P_i_given_x_mean, Rat(1, 2), G_nChannels)[i][x] = Rat(1, 2)
           /\ Threshold(P_i_given_x_mean, One, G_nChannels)[i][x] = Zero
           /\ P_i_given_x_thresholded[i][x] = Rat(1, 2)
    /\ \E i \in Ch, x \in Ch : P_i_given_x_mean[i][x] = One
    /\ \E i \in Ch, x \in Ch : P_i_given_x_mean[i][x] = Zero

\* z-thresholds the Significance Filter is compared at: those of 1 and 2
\* fragments, and the larger ones of 100 and 10^4 fragments (3.29, 4.42).
ZThresholds == {NormPpf(1), NormPpf(2), Rat(329, 100), Rat(442, 100)}

\* The pairs (t1, t2) of these thresholds with t2 >= t1.
ThresholdPairs == {p \in ZThresholds \X ZThresholds : RGe(p[2], p[1])}

\* The thresholds under which the z-score zz is significant.
SignificantUnder(zz) == {t \in ZThresholds : ExceedsThreshold(zz, t)}

\* The decided triples that are significant under the threshold t, by the
\* z-scores the notebook computed from the strengths and surrogates.
SignificantAt(t) ==
    {c \in Ch \X Ch \X Decided :
        ExceedsThreshold(z_scores_fragments[c[1]][c[2]][c[3]], t)}

\* C12: for the same strengths and surrogates, whenever t2 >= t1 a triple
\* significant under t2 is significant under t1 (so the number of
\* significant triples never grows with the threshold), checked on the
\* z-score of every decided triple; the triples the notebook stored a
\* strength for are significant under its own threshold.
C12_ThresholdMonotone ==
    /\ \A zz \in {z_scores_fragments[c[1]][c[2]][c[3]] : c \in Ch \X Ch \X Decided} :
           \A under \in {SignificantUnder(zz)} :
               \A p \in ThresholdPairs : p[2] \in under => p[1] \in under
    /\ \A c \in Ch \X Ch \X Decided :
           significant_pac_values_fragments[c[1]][c[2]][c[3]] # 0 =>
               ExceedsThreshold(z_scores_fragments[c[1]][c[2]][c[3]],
                                G_zThreshold_Bonferroni)

\* All decisions written; some triple is significant under the notebook's
\* threshold and no longer under a larger one, and some triple is
\* significant under every threshold.
C12_Witness ==
    /\ Step4Complete
    /\ \E t2 \in ZThresholds :
           /\ RGt(t2, G_zThreshold_Bonferroni)
           /\ SignificantAt(G_zThreshold_Bonferroni) \ SignificantAt(t2) # {}
    /\ \E c \in Ch \X Ch \X Fr : \A t \in ZThresholds : c \in SignificantAt(t)

\* The significance decision of every triple has been written: the z-score
\* and the masked strength of every (i, j, f) are the ones lines 378-385
\* compute from that triple's strength and surrogates.
AllDecisionsWritten ==
    /\ Assigned(z_scores_fragments)
    /\ Assigned(significant_pac_values_fragments)
    /\ \A i \in Ch, j \in Ch, f \in Fr :
           LET zz == ZScore(pac_values_fragments[i][j][f],
                            surrogate_pac_values_fragments[i][j][f])
           IN  /\ z_scores_fragments[i][j][f] = zz
               /\ significant_pac_values_fragments[i][j][f] =
                      SignificantValue(pac_values_fragments[i][j][f], zz,
                                       G_zThreshold_Bonferroni)

\* The density model has been fitted.
Fitted == Assigned(kde_fragments)

\* A prior, likelihood, evidence or posterior stage has started.
BayesStageStarted ==
    \/ pc \in {"likelihood", "evidence", "bayes", "results", "done"}
    \/ Assigned(P_i)
    \/ Assigned(P_x_given_i)
    \/ Assigned(P_x)
    \/ Assigned(P_i_given_x_fragments)

\* C13: the density model is fitted only when the significance decision of
\* every triple has been written; the prior, likelihood, evidence and
\* posterior stages start only after the fit; and once the model is fitted,
\* no step changes it or the significance-masked array.
C13_StageOrdering ==
    /\ [](Fitted => AllDecisionsWritten)
    /\ [](BayesStageStarted => Fitted)
    /\ [][Fitted => /\ kde_fragments' = kde_fragments
                    /\ significant_pac_values_fragments' =
                           significant_pac_values_fragments]_vars

\* A finished run of two fragments: the model was fitted, every later stage
\* has run, and the second fragment holds a significant strength.
C13_Witness ==
    /\ pc = "done"
    /\ G_nFragments = 2
    /\ Fitted
    /\ Assigned(P_i) /\ Assigned(P_x_given_i) /\ Assigned(P_x)
    /\ Assigned(P_i_given_x_fragments)
    /\ \E i \in Ch, j \in Ch : significant_pac_values_fragments[i][j][1] > 0

\* The fragments whose oracle calls have all returned and been stored.
Called ==
    IF ~Assigned(pac_values_fragments) THEN {}
    ELSE IF pc = "pac" THEN Fragments(frag)
    ELSE IF pc = "raised" /\ ~Assigned(z_scores_fragments) THEN {}
    ELSE Fr

\* C14 (as claimed): for every configured G_nSurrogates, once the first
\* oracle call has been made the run has not stopped in the oracle loop, and
\* every call made returned exactly G_nSurrogates surrogates, which are the
\* ones stored and used for the z-score of its triple.
C14_ConfiguredSurrogateCount ==
    Assigned(pac_values_fragments) =>
        /\ ~(pc = "raised" /\ ~Assigned(z_scores_fragments))
        /\ \A i \in Ch, j \in Ch, f \in Called :
               /\ BagCardinality(surrogate_pac_values_fragments[i][j][f]) = G_nSurrogates
               /\ f \in Decided =>
                      z_scores_fragments[i][j][f] =
                          ZScore(pac_values_fragments[i][j][f],
                                 surrogate_pac_values_fragments[i][j][f])

\* The fitted density is strictly positive at every point it is evaluated at
\* (the scaled strength of every triple with a positive masked strength).
DensityPositive ==
    \A i \in Ch, j \in Ch, f \in Fr :
        significant_pac_values_fragments[i][j][f] > 0 =>
            \E p \in {KdeEvaluate(kde_fragments,
                                  significant_pac_values_fragments[i][j][f] * Scale)} :
                RGt(p, Zero)

\* The fraction of fragments whose masked strength at (i, x) is positive.
SupportFraction(i, x) ==
    Rat(Cardinality({f \in Fr : significant_pac_values_fragments[i][x][f] > 0}),
        G_nFragments)

\* C15: with a density that is strictly positive where it is evaluated,
\* P_x_given_i_mean and P_i_given_x_mean are, entry by entry, the fraction of
\* fragments whose masked strength at that (row, column) is positive, hence
\* equal to each other, whatever the density, prior and evidence values.
C15_AggregateIsSupportFraction ==
    (Fitted /\ DensityPositive) =>
        /\ Assigned(P_x_given_i_mean) =>
               \A i \in Ch, x \in Ch : P_x_given_i_mean[i][x] = SupportFraction(i, x)
        /\ Assigned(P_i_given_x_mean) =>
               \A i \in Ch, x \in Ch :
                   /\ P_i_given_x_mean[i][x] = SupportFraction(i, x)
                   /\ P_i_given_x_mean[i][x] = P_x_given_i_mean[i][x]

\* A run past the Bayes cell in which a posterior differs from the
\* likelihood it was computed from, the prior is not uniform, and an
\* aggregate entry is a proper fraction.
C15_Witness ==
    /\ Assigned(P_i_given_x_mean)
    /\ DensityPositive
    /\ \E i \in Ch, x \in Ch, f \in Fr :
           /\ P_x_given_i[i][x][f] # Zero
           /\ P_i_given_x_fragments[i][x][f] # Zero
           /\ P_i_given_x_fragments[i][x][f] # P_x_given_i[i][x][f]
    /\ \E i \in Ch, k \in Ch : RGt(P_i[i], P_i[k]) /\ RGt(P_i[k], Zero)
    /\ \E i \in Ch, x \in Ch :
           RGt(P_i_given_x_mean[i][x], Zero) /\ RGt(One, P_i_given_x_mean[i][x])

====
